---- MODULE Spec2Model ----
(***************************************************************************)
(* Model of the Pokedex lookup component (src/src/App.tsx): the four       *)
(* pieces of React state, the three handlers (searchPokemon,               *)
(* navigatePokemon, the input's onChange), the asynchronous continuation   *)
(* of fetchPokemon, and the remote data service as the environment.        *)
(***************************************************************************)
EXTENDS Integers, Sequences, FiniteSets, TLC

\* ------------------------------------------------------------------ bounds
\* Highest id the data service knows; ids above it answer 404.
MaxId == 3
\* Total number of lookups the user starts in one behaviour.
MaxLookups == 4

\* -------------------------------------------------------------------- text
\* A text is a sequence of one-character strings.
Letters == <<"a", "b", "c", "d", "e", "f">>
Digits == <<"0", "1", "2", "3", "4", "5", "6", "7", "8", "9">>

\* String.prototype.toLowerCase on one character.
LowerChar(c) ==
    CASE c = "A" -> "a"
      [] c = "B" -> "b"
      [] c = "C" -> "c"
      [] c = "Z" -> "z"
      [] OTHER -> c

toLowerCase(s) == [i \in 1..Len(s) |-> LowerChar(s[i])]

IsWhite(c) == c = " "

RECURSIVE trimStart(_)
trimStart(s) ==
    IF s = <<>> THEN <<>>
    ELSE IF IsWhite(Head(s)) THEN trimStart(Tail(s)) ELSE s

RECURSIVE trimEnd(_)
trimEnd(s) ==
    IF s = <<>> THEN <<>>
    ELSE IF IsWhite(s[Len(s)]) THEN trimEnd(SubSeq(s, 1, Len(s) - 1)) ELSE s

\* String.prototype.trim
trim(s) == trimEnd(trimStart(s))

\* Number.prototype.toString for an integer n >= 0 (decimal digits).
RECURSIVE toString(_)
toString(n) ==
    IF n < 10 THEN <<Digits[n + 1]>>
    ELSE toString(n \div 10) \o <<Digits[(n % 10) + 1]>>

\* The texts the user can put in the search field.
SearchTexts == { <<>>, <<" ">>, <<"a">>, <<" ", "a">>, <<"B">>, <<"2">>, <<"z">> }

\* ----------------------------------------------------------------- service
\* The Record shape, reduced to the fields the handlers read.
Entity(i) == [id |-> i, name |-> <<Letters[i]>>]

\* useState<Pokemon | null>(null): the absent Record.
Null == [id |-> 0, name |-> <<>>]

Known == { Entity(i) : i \in 1..MaxId }

\* The entities the service returns for a path segment: addressed by the
\* decimal id or by the lowercase name.
ServiceLookup(path) ==
    { e \in Known : path = toString(e.id) \/ path = e.name }

\* How a request can end. "ok": response.ok and the body parses. The other
\* three reach the catch block.
Failures == { "http_error", "network", "parse" }

Outcomes(path) ==
    (IF ServiceLookup(path) # {} THEN { "ok" } ELSE {}) \cup Failures

ErrorMessage == "Pokémon no encontrado. Comprueba el nombre."

\* --------------------------------------------------------------- rendering
\* Inputs of the presentation functions: statistic values from
\* -MaxBelowZero to MaxStat.
MaxStat == 300
MaxBelowZero == 2

\* A property read obj[key] on an object literal: an own property, else a
\* member inherited from Object.prototype, else undefined.
Undefined == "<undefined>"
ObjectPrototypeMember == "<member of Object.prototype>"
ObjectPrototypeKeys ==
    { "constructor", "toString", "toLocaleString", "valueOf", "hasOwnProperty",
      "isPrototypeOf", "propertyIsEnumerable", "__proto__" }

Get(obj, key) ==
    IF key \in DOMAIN obj THEN obj[key]
    ELSE IF key \in ObjectPrototypeKeys THEN ObjectPrototypeMember
    ELSE Undefined

\* a || b on these values: a when truthy.
OrElse(a, b) == IF a = Undefined \/ a = "" THEN b ELSE a

colors ==
    [normal |-> "bg-gray-400", fire |-> "bg-red-500", water |-> "bg-blue-500",
     electric |-> "bg-yellow-400", grass |-> "bg-green-500", ice |-> "bg-blue-300",
     fighting |-> "bg-red-700", poison |-> "bg-purple-500", ground |-> "bg-yellow-600",
     flying |-> "bg-indigo-400", psychic |-> "bg-pink-500", bug |-> "bg-lime-500",
     rock |-> "bg-yellow-800", ghost |-> "bg-purple-700", dragon |-> "bg-indigo-700",
     dark |-> "bg-gray-800", steel |-> "bg-gray-500", fairy |-> "bg-pink-400"]

getTypeColor(type) == OrElse(Get(colors, type), "bg-gray-400")

tipos ==
    [normal |-> "normal", fire |-> "fuego", water |-> "agua",
     electric |-> "eléctrico", grass |-> "planta", ice |-> "hielo",
     fighting |-> "lucha", poison |-> "veneno", ground |-> "tierra",
     flying |-> "volador", psychic |-> "psíquico", bug |-> "bicho",
     rock |-> "roca", ghost |-> "fantasma", dragon |-> "dragón",
     dark |-> "siniestro", steel |-> "acero", fairy |-> "hada"]

getTypeTranslated(type) == OrElse(Get(tipos, type), type)

translations ==
    ("hp" :> "PS") @@ ("attack" :> "Ataque") @@ ("defense" :> "Defensa") @@
    ("special-attack" :> "At. Esp.") @@ ("special-defense" :> "Def. Esp.") @@
    ("speed" :> "Velocidad")

formatStatName(stat) == OrElse(Get(translations, stat), stat)

\* Thresholds tested with > (not what the code does).
getStatColorStrict(statValue) ==
    IF statValue > 150 THEN "bg-purple-500"
    ELSE IF statValue > 100 THEN "bg-blue-500"
    ELSE IF statValue > 70 THEN "bg-green-500"
    ELSE IF statValue > 50 THEN "bg-yellow-500"
    ELSE "bg-red-500"

getStatColor(statValue) ==
    IF statValue >= 150 THEN "bg-purple-500"
    ELSE IF statValue >= 100 THEN "bg-blue-500"
    ELSE IF statValue >= 70 THEN "bg-green-500"
    ELSE IF statValue >= 50 THEN "bg-yellow-500"
    ELSE "bg-red-500"

\* Math.min((stat.base_stat / 255) * 100, 100), in percent. The quotient is
\* kept exact as a fraction [num, den] with den = StatScale; the code computes
\* it in double precision, which rounds each operation to the nearest double.
StatScale == 255
FullWidth == 100

\* The width without Math.min (not what the code does).
barWidthUnclamped(base_stat) == [num |-> base_stat * FullWidth, den |-> StatScale]

barWidth(base_stat) ==
    LET scaled == base_stat * FullWidth      \* (base_stat / 255) * 100, times 255
        limit == FullWidth * StatScale       \* 100, times 255
    IN  [num |-> IF scaled < limit THEN scaled ELSE limit, den |-> StatScale]

\* The category tags and statistic keys rendered: the service's, one the
\* tables do not hold, the empty string, and a name every object inherits.
TypeTags == DOMAIN colors \cup { "shadow", "", "constructor" }
StatKeys == DOMAIN translations \cup { "accuracy", "", "toString" }
StatValues == (0 - MaxBelowZero)..MaxStat

NoProbe == [kind |-> "none", tag |-> "", name |-> "", value |-> 0]
TypeProbe(t) == [kind |-> "type", tag |-> t, name |-> "", value |-> 0]
StatProbe(k, v) == [kind |-> "stat", tag |-> "", name |-> k, value |-> v]

NoView ==
    [kind |-> "none", color |-> "", label |-> "", number |-> 0,
     width |-> [num |-> 0, den |-> 1]]

\* ------------------------------------------------------------------- state
VARIABLES
    search,    \* useState('')
    pokemon,   \* useState<Pokemon | null>(null)
    loading,   \* useState(false)
    error,     \* useState('')
    inflight,  \* the fetchPokemon calls suspended at their await
    issued,    \* number of requests issued so far
    last,      \* the step that led to this state (history)
    probe,     \* a category tag or a statistic of the Record being rendered
    view       \* what the component rendered for the probe

vars == <<search, pokemon, loading, error, inflight, issued, last, probe, view>>

NoReq ==
    [id |-> 0, path |-> <<>>, origin |-> "none", shown |-> Null, intact |-> TRUE,
     alone |-> TRUE]

Step(op, started, req, outcome) ==
    [op |-> op, started |-> started, req |-> req, outcome |-> outcome]

Init ==
    /\ search = <<>>
    /\ pokemon = Null
    /\ loading = FALSE
    /\ error = ""
    /\ inflight = {}
    /\ issued = 0
    /\ last = Step("init", FALSE, NoReq, "none")
    /\ probe = NoProbe
    /\ view = NoView

\* ----------------------------------------------------------------- actions
\* onChange={(e) => setSearch(e.target.value)}
SetSearch(t) ==
    /\ search' = t
    /\ last' = Step("type", FALSE, NoReq, "none")
    /\ UNCHANGED <<pokemon, loading, error, inflight, issued, probe, view>>

\* The path segment of the request: identifier.toString().toLowerCase().
\* A text identifier is its own string form.
RequestPath(identifier) == toLowerCase(identifier)

\* A request as fetchPokemon issues it; shown, intact and alone are history:
\* the Record on display when the handler was entered, whether no other
\* operation has written the Record since, and whether nothing else was in
\* flight when it was issued.
NewRequest(identifier, origin) ==
    [id |-> issued + 1, path |-> RequestPath(identifier), origin |-> origin,
     shown |-> pokemon, intact |-> TRUE, alone |-> inflight = {}]

\* The in-flight requests after some operation wrote the Record.
Disturbed(reqs) == { [r EXCEPT !.intact = FALSE] : r \in reqs }

\* A start that leaves the loading flag as it is (not what the code does).
LoadingAtStartKept == loading

\* A start that leaves the error text as it is (not what the code does).
ErrorAtStartKept == error

\* setLoading(true) and setError('') at the head of fetchPokemon.
LoadingAtStart == TRUE
ErrorAtStart == ""

\* fetchPokemon up to its first await: setLoading(true); setError('');
\* fetch(...) is issued. No request already in flight is aborted.
fetchPokemonStart(req, others) ==
    /\ loading' = LoadingAtStart
    /\ error' = ErrorAtStart
    /\ inflight' = others \cup {req}
    /\ issued' = issued + 1

\* The search submit button is disabled while loading.
SubmitEnabled == ~loading

\* A blank test that does not trim (not what the code does).
BlankSearchUntrimmed == search = <<>>

\* if (!search.trim()) return;
BlankSearch == trim(search) = <<>>

\* A search that leaves the Record on display (not what the code does).
RecordOnSearchKept == pokemon

\* setPokemon(null) before the fetch of a search.
RecordOnSearch == Null

\* onSubmit={searchPokemon}
searchPokemon ==
    /\ SubmitEnabled
    /\ IF BlankSearch
       THEN /\ last' = Step("search", FALSE, NoReq, "none")
            /\ UNCHANGED <<search, pokemon, loading, error, inflight, issued, probe, view>>
       ELSE /\ issued < MaxLookups
            /\ pokemon' = RecordOnSearch
            /\ LET req == NewRequest(search, "search") IN
               /\ fetchPokemonStart(req, Disturbed(inflight))
               /\ last' = Step("search", TRUE, req, "none")
            /\ UNCHANGED <<search, probe, view>>

\* Both directions stepping forward (not what the code does).
newIdForward(direction) == pokemon.id + 1

\* const newId = direction === 'prev' ? pokemon.id - 1 : pokemon.id + 1;
newId(direction) == IF direction = "prev" THEN pokemon.id - 1 ELSE pokemon.id + 1

\* Navigation without the test for a Record (not what the code does).
NavigationRefusedNoRecord(direction) == newId(direction) < 1

\* Navigation without the floor at id 1 (not what the code does).
NavigationRefusedNoFloor(direction) == pokemon = Null

\* if (!pokemon) return; ... if (newId < 1) return;
NavigationRefused(direction) == pokemon = Null \/ newId(direction) < 1

\* onClick={() => navigatePokemon(direction)}
navigatePokemon(direction) ==
    IF NavigationRefused(direction)
    THEN /\ last' = Step(direction, FALSE, NoReq, "none")
         /\ UNCHANGED <<search, pokemon, loading, error, inflight, issued, probe, view>>
    ELSE /\ issued < MaxLookups
         /\ LET req == NewRequest(toString(newId(direction)), "nav") IN
            /\ fetchPokemonStart(req, inflight)
            /\ last' = Step(direction, TRUE, req, "none")
         /\ UNCHANGED <<search, pokemon, probe, view>>

\* A catch block that shows the thrown error's own message (not what the
\* code does).
ErrorOnFailureThrown == "Pokémon no encontrado"

\* A success that clears the error text, and a continuation without the
\* finally block (not what the code does).
ErrorOnSuccessCleared == ""
LoadingAtEndKept == loading

\* setError(...) in the catch block; the error text after a success, which
\* the try block leaves alone; setLoading(false) in the finally block.
ErrorOnFailure == ErrorMessage
ErrorOnSuccess == error
LoadingAtEnd == FALSE

\* A continuation that drops its result unless its request is the latest one
\* issued (not what the code does).
fetchPokemonResumeLatestOnly(r, o) ==
    /\ r \in inflight
    /\ o \in Outcomes(r.path)
    /\ IF r.id # issued
       THEN /\ inflight' = inflight \ {r}
            /\ UNCHANGED <<pokemon, error, loading>>
       ELSE /\ IF o = "ok"
               THEN /\ pokemon' \in ServiceLookup(r.path)
                    /\ inflight' = Disturbed(inflight \ {r})
                    /\ UNCHANGED error
               ELSE /\ error' = ErrorMessage
                    /\ inflight' = inflight \ {r}
                    /\ UNCHANGED pokemon
            /\ loading' = FALSE
    /\ last' = Step("resolve", FALSE, r, o)
    /\ UNCHANGED <<search, issued, probe, view>>

\* The rest of fetchPokemon, run when the request r ends with outcome o:
\* every continuation applies its result, whatever else is in flight.
fetchPokemonResume(r, o) ==
    /\ r \in inflight
    /\ o \in Outcomes(r.path)
    /\ IF o = "ok"
       THEN /\ pokemon' \in ServiceLookup(r.path)
            /\ error' = ErrorOnSuccess
            /\ inflight' = Disturbed(inflight \ {r})
       ELSE /\ error' = ErrorOnFailure
            /\ inflight' = inflight \ {r}
            /\ UNCHANGED pokemon
    /\ loading' = LoadingAtEnd
    /\ last' = Step("resolve", FALSE, r, o)
    /\ UNCHANGED <<search, issued, probe, view>>

\* A pending request ends, in any order, with any outcome it can have.
Resume == \E r \in inflight, o \in {"ok"} \cup Failures : fetchPokemonResume(r, o)

Next ==
    \/ \E t \in SearchTexts : SetSearch(t)
    \/ searchPokemon
    \/ \E d \in {"prev", "next"} : navigatePokemon(d)
    \/ Resume

Spec == Init /\ [][Next]_vars

\* ---------------------------------------------------- rendering, as a system
\* The category badge of pokemon.types.map(...).
RenderBadge ==
    /\ probe.kind = "type"
    /\ view = NoView
    /\ view' = [kind |-> "badge",
                color |-> getTypeColor(probe.tag),
                label |-> getTypeTranslated(probe.tag),
                number |-> 0,
                width |-> NoView.width]
    /\ UNCHANGED <<search, pokemon, loading, error, inflight, issued, last, probe>>

\* The statistic row of pokemon.stats.map(...).
RenderStat ==
    /\ probe.kind = "stat"
    /\ view = NoView
    /\ view' = [kind |-> "stat",
                color |-> getStatColor(probe.value),
                label |-> formatStatName(probe.name),
                number |-> probe.value,
                width |-> barWidth(probe.value)]
    /\ UNCHANGED <<search, pokemon, loading, error, inflight, issued, last, probe>>

\* The component is rendered for one tag or one statistic of a Record.
RenderInit ==
    /\ search = <<>>
    /\ pokemon = Null
    /\ loading = FALSE
    /\ error = ""
    /\ inflight = {}
    /\ issued = 0
    /\ last = Step("init", FALSE, NoReq, "none")
    /\ probe \in { TypeProbe(t) : t \in TypeTags }
                \cup { StatProbe(k, v) : k \in StatKeys, v \in StatValues }
    /\ view = NoView

RenderNext == RenderBadge \/ RenderStat

RenderSpec == RenderInit /\ [][RenderNext]_vars

\* Every issued request is eventually answered or fails (the transport ends
\* every request).
ResolveId(k) ==
    \E r \in inflight, o \in {"ok"} \cup Failures : r.id = k /\ fetchPokemonResume(r, o)

FairSpec == Spec /\ \A k \in 1..MaxLookups : WF_vars(ResolveId(k))

TypeOK ==
    /\ search \in SearchTexts
    /\ pokemon \in Known \cup {Null}
    /\ loading \in BOOLEAN
    /\ error \in {"", ErrorMessage}
    /\ issued \in 0..MaxLookups
    /\ \A r \in inflight : r.id \in 1..issued

\* ------------------------------------------------------- shared vocabulary
Starts == last.started
Resolved == last.op = "resolve"
Succeeded == Resolved /\ last.outcome = "ok"
Failed == Resolved /\ last.outcome \in Failures
Ids(reqs) == { r.id : r \in reqs }
\* The Record a lookup shows when nothing else writes the Record.
OwnRecord(r) == IF r.origin = "search" THEN Null ELSE r.shown
AppState == <<search, pokemon, loading, error, inflight, issued>>

\* ---------------------------------------------------------------------- C1
C1_LoadingAtStart == Starts => loading = TRUE
C1_ShownAtSuccess ==
    Succeeded => loading = FALSE /\ pokemon \in ServiceLookup(last.req.path)
C1_LeavesByAnswer ==
    \A k \in Ids(inflight) \ Ids(inflight') :
        last'.op = "resolve" /\ last'.req.id = k

\* C1: every lookup, from search or navigation, sets loading to true as it
\* starts; a request stops being in flight only by being resolved, every
\* issued request is eventually resolved, and when it resolves successfully
\* loading is false and the Record is the entity the service returned for
\* its path.
C1_LookupSucceeds ==
    /\ [](C1_LoadingAtStart /\ C1_ShownAtSuccess)
    /\ [][C1_LeavesByAnswer]_vars
    /\ <>[](inflight = {})

\* A navigation request for id 2 has been answered and entity 2 is shown.
C1_Witness ==
    /\ Succeeded
    /\ last.req.origin = "nav"
    /\ last.req.path = toString(2)
    /\ pokemon = Entity(2)
    /\ loading = FALSE

\* ---------------------------------------------------------------------- C2
\* C2 as stated: when a lookup ends in failure, loading is false, the error
\* text is the fixed message, and the Record is unset (search) or the Record
\* that was on display when the lookup started (navigation).
C2_Original ==
    Failed => /\ loading = FALSE
              /\ error = ErrorMessage
              /\ pokemon = OwnRecord(last.req)

\* C2 amended: when a lookup ends in failure, loading is false, the error
\* text is the fixed message, and the failing continuation leaves the Record
\* as it finds it; the Record is unset (search) or the Record on display at
\* the start (navigation) when no other operation wrote the Record while the
\* lookup was in flight.
C2_FailureEnds ==
    /\ [](Failed => /\ loading = FALSE
                    /\ error = ErrorMessage
                    /\ (last.req.intact => pokemon = OwnRecord(last.req)))
    /\ [][last'.op = "resolve" /\ last'.outcome \in Failures
            => pokemon' = pokemon]_vars

\* A navigation request past the service's range failed while the Record it
\* started from is still shown.
C2_Witness ==
    /\ Failed
    /\ last.outcome = "http_error"
    /\ last.req.origin = "nav"
    /\ last.req.intact
    /\ last.req.path = toString(MaxId + 1)
    /\ pokemon = Entity(MaxId)
    /\ error = ErrorMessage
    /\ loading = FALSE

\* ---------------------------------------------------------------------- C3
\* C3 as stated: the displayed state after a resolution (Record and error
\* text) is the one the resolving lookup produces: its entity and no error
\* text after a success, the error message and its own Record after a
\* failure.
C3_Original ==
    /\ Succeeded => pokemon \in ServiceLookup(last.req.path) /\ error = ""
    /\ Failed => error = ErrorMessage /\ pokemon = OwnRecord(last.req)

\* C3 amended: a lookup started while others are in flight cancels none of
\* them, each one's continuation runs when its response arrives, whatever
\* the submission order, and writes only its own field: a success stores its
\* entity as the Record and leaves the error text, a failure sets the error
\* message and leaves the Record; both set loading to false.
C3_LastWriterPerField ==
    /\ [](\A r \in inflight : ENABLED fetchPokemonResume(r, "network"))
    /\ [][last'.started => Ids(inflight') = Ids(inflight) \cup {last'.req.id}]_vars
    /\ [][last'.op = "resolve"
            => /\ last'.req \in inflight
               /\ Ids(inflight') = Ids(inflight) \ {last'.req.id}
               /\ loading' = FALSE
               /\ IF last'.outcome = "ok"
                  THEN pokemon' \in ServiceLookup(last'.req.path) /\ error' = error
                  ELSE error' = ErrorMessage /\ pokemon' = pokemon]_vars

\* The older of two concurrent lookups resolved last and its entity is shown,
\* together with the error text the younger one's failure left.
C3_Witness ==
    /\ Succeeded
    /\ last.req.id < issued
    /\ inflight = {}
    /\ pokemon \in ServiceLookup(last.req.path)
    /\ error = ErrorMessage

\* ---------------------------------------------------------------------- C4
NavOps == {"prev", "next"}

\* C4 as stated: starting a lookup, by search or by navigation, leaves the
\* displayed Record in place, and the Record changes only when a response
\* resolves successfully.
C4_Original ==
    [][/\ last'.started => pokemon' = pokemon
       /\ pokemon' # pokemon => last'.op = "resolve" /\ last'.outcome = "ok"]_vars

\* C4 amended: starting a lookup by navigation leaves the displayed Record in
\* place; submitting a non-blank search sets the Record to unset at once,
\* before its fetch resolves; the Record changes only by such a search
\* submission or by a successful response.
C4_RecordKeptByNavigation ==
    [][/\ last'.started /\ last'.op \in NavOps => pokemon' = pokemon
       /\ last'.started /\ last'.op = "search" => pokemon' = Null
       /\ pokemon' # pokemon =>
            \/ last'.op = "resolve" /\ last'.outcome = "ok"
            \/ last'.op = "search" /\ last'.started]_vars

\* A search was submitted with a Record on display, which it cleared, while
\* a navigation lookup that had left its Record in place is still in flight.
C4_Witness ==
    /\ last.op = "search"
    /\ last.started
    /\ last.req.shown # Null
    /\ pokemon = Null
    /\ \E r \in inflight : r.origin = "nav" /\ r.shown # Null

\* ---------------------------------------------------------------------- C5
\* C5: navigatePokemon('prev') with the Record of id 1 on display issues no
\* request and leaves search text, Record, loading and error unchanged.
C5_PreviousAtFirst ==
    [][last'.op = "prev" /\ pokemon.id = 1
         => ~last'.started /\ UNCHANGED AppState]_vars

\* Previous was requested with entity 1 on display and text in the field.
C5_Witness ==
    /\ last.op = "prev"
    /\ ~last.started
    /\ pokemon = Entity(1)
    /\ search # <<>>

\* ---------------------------------------------------------------------- C6
\* C6: with the Record of id N on display, next issues exactly one request,
\* for N+1, and previous with N > 1 issues exactly one request, for N-1;
\* next issues its request at every N, the service's highest id included.
C6_NavigationTarget ==
    [][last'.op \in NavOps /\ pokemon # Null /\ (last'.op = "next" \/ pokemon.id > 1)
         => /\ last'.started
            /\ last'.req.path =
                 toString(IF last'.op = "next" THEN pokemon.id + 1 ELSE pokemon.id - 1)
            /\ last'.req.id \notin Ids(inflight)
            /\ inflight' = inflight \cup {last'.req}
            /\ issued' = issued + 1]_vars

\* Previous was requested from a Record of id N > 1 while the request that
\* next issued from the service's highest id is in flight.
C6_Witness ==
    /\ last.op = "prev"
    /\ last.started
    /\ last.req.shown.id > 1
    /\ last.req.path = toString(last.req.shown.id - 1)
    /\ \E r \in inflight : /\ r.shown = Entity(MaxId)
                           /\ r.path = toString(MaxId + 1)

\* ---------------------------------------------------------------------- C7
\* C7: every lookup sets loading to false when it ends, on success and on
\* failure; when every issued request is eventually resolved, the system
\* comes to rest with no request in flight and loading false.
C7_ComesToRest ==
    /\ [](Resolved => loading = FALSE)
    /\ <>[](inflight = {} /\ loading = FALSE)

\* The last lookup of the behaviour failed; nothing is in flight and loading
\* is false.
C7_Witness ==
    /\ Failed
    /\ issued = MaxLookups
    /\ inflight = {}
    /\ loading = FALSE

\* ---------------------------------------------------------------------- C8
\* C8: the error text is empty right after every lookup start; it changes
\* only at a lookup start or when a request fails; once set it stays set
\* until the next lookup starts.
C8_ErrorLifetime ==
    /\ [](Starts => error = "")
    /\ [][error' # error =>
            \/ last'.started
            \/ last'.op = "resolve" /\ last'.outcome \in Failures]_vars
    /\ [][error = ErrorMessage /\ ~last'.started => error' = ErrorMessage]_vars

\* A request resolved successfully while the error text of an earlier
\* failure is still set.
C8_Witness ==
    /\ Succeeded
    /\ error = ErrorMessage

\* ---------------------------------------------------------------------- C9
AllWhite(s) == \A i \in 1..Len(s) : s[i] = " "

\* C9: submitting the form with empty or whitespace-only text issues no
\* request and leaves Record, loading and error unchanged; submitting
\* non-blank text issues exactly one request, for the lowercased text.
C9_BlankSubmission ==
    [][last'.op = "search" =>
         IF AllWhite(search)
         THEN ~last'.started /\ UNCHANGED AppState
         ELSE /\ last'.started
              /\ last'.req.path = toLowerCase(search)
              /\ last'.req.id \notin Ids(inflight)
              /\ Ids(inflight') = Ids(inflight) \cup {last'.req.id}
              /\ issued' = issued + 1]_vars

\* A whitespace-only text was submitted with a Record on display.
C9_Witness ==
    /\ last.op = "search"
    /\ ~last.started
    /\ search = <<" ">>
    /\ pokemon # Null

\* --------------------------------------------------------------------- C10
\* C10: every request issued by navigation carries the decimal form of an
\* integer >= 1 that is one below or one above the id of the fetched Record
\* on display when it was issued; navigation with no Record on display
\* issues no request, whatever the search text.
C10_NavigationIdentifier ==
    /\ [](\A r \in inflight \cup {last.req} :
            r.origin = "nav" =>
              /\ r.shown \in Known
              /\ \E n \in 1..(MaxId + 1) :
                   /\ n \in {r.shown.id - 1, r.shown.id + 1}
                   /\ r.path = toString(n))
    /\ [][last'.op \in NavOps /\ pokemon = Null
            => ~last'.started /\ UNCHANGED AppState]_vars

\* Next was requested with no Record on display and a number in the field.
C10_Witness ==
    /\ last.op = "next"
    /\ ~last.started
    /\ pokemon = Null
    /\ search = <<"2">>

\* --------------------------------------------------------------------- C11
\* p <= q for fractions with positive denominators.
FracLeq(p, q) == p.num * q.den <= q.num * p.den

\* C11: for every statistic value v >= 0 the bar width in percent is
\* min(v/255*100, 100): 0 for v = 0, exactly 100 for v = 255, never above
\* 100, and non-decreasing in v (the width for v + 1 is never smaller).
C11_BarWidth ==
    view.kind = "stat" /\ probe.value >= 0 =>
        LET v == probe.value
            w == view.width
            hundred == [num |-> 100, den |-> 1]
            ratio == [num |-> v * 100, den |-> 255]
        IN  /\ w.den > 0
            /\ IF FracLeq(ratio, hundred)
               THEN FracLeq(w, ratio) /\ FracLeq(ratio, w)
               ELSE FracLeq(w, hundred) /\ FracLeq(hundred, w)
            /\ v = 0 => w.num = 0
            /\ v = 255 => w.num = 100 * w.den
            /\ FracLeq(w, hundred)
            /\ FracLeq(w, barWidth(v + 1))

\* The bar of the out-of-range value 300 was rendered at 100 percent.
C11_Witness ==
    /\ view.kind = "stat"
    /\ probe.value = 300
    /\ view.width.num = 100 * view.width.den

\* --------------------------------------------------------------------- C12
\* The accents whose range of values holds v.
TiersOf(v) ==
    (IF v >= 150 THEN {"bg-purple-500"} ELSE {})
    \cup (IF 100 <= v /\ v < 150 THEN {"bg-blue-500"} ELSE {})
    \cup (IF 70 <= v /\ v < 100 THEN {"bg-green-500"} ELSE {})
    \cup (IF 50 <= v /\ v < 70 THEN {"bg-yellow-500"} ELSE {})
    \cup (IF v < 50 THEN {"bg-red-500"} ELSE {})

\* C12: the bar accent of every integer value v is the one of its range:
\* purple for v >= 150, blue for 100..149, green for 70..99, yellow for
\* 50..69, red below 50; every value has exactly one.
C12_StatTier ==
    view.kind = "stat" => TiersOf(probe.value) = {view.color}

\* The bar of the value 150, the lowest of the top tier, was rendered purple.
C12_Witness ==
    /\ view.kind = "stat"
    /\ probe.value = 150
    /\ view.color = "bg-purple-500"

\* --------------------------------------------------------------------- C13
\* C13 as stated: each known category tag is rendered with its label and
\* accent of the tables, every other tag with itself as label and the accent
\* 'bg-gray-400'; each known statistic key with its label, every other key
\* with itself.
C13_Original ==
    /\ view.kind = "badge" =>
         IF probe.tag \in DOMAIN colors
         THEN view.color = colors[probe.tag] /\ view.label = tipos[probe.tag]
         ELSE view.color = "bg-gray-400" /\ view.label = probe.tag
    /\ view.kind = "stat" =>
         IF probe.name \in DOMAIN translations
         THEN view.label = translations[probe.name]
         ELSE view.label = probe.name

\* --------------------------------------------------------------------- C14
\* C14 as stated: loading is true whenever a request is in flight.
C14_Original == inflight # {} => loading = TRUE

\* A request that never shared the wire: nothing was in flight when it was
\* issued and no lookup has started since.
NeverOverlapped(r) == r.alone /\ r.id = issued

\* C14 amended: loading is true from each lookup start until the next
\* response of any lookup arrives, and false from then until the next lookup
\* start. So loading true implies a request in flight, and a request that
\* never overlapped another has loading true while it is in flight; a
\* response that arrives while another request is pending sets loading false.
C14_LoadingUntilNextResponse ==
    /\ [](loading = TRUE => inflight # {})
    /\ [](\A r \in inflight : NeverOverlapped(r) => loading = TRUE)
    /\ [][loading' = IF last'.started THEN TRUE
                     ELSE IF last'.op = "resolve" THEN FALSE
                     ELSE loading]_vars

\* A response arrived while a navigation request is still pending: the
\* spinner is off and the submit control enabled.
C14_Witness ==
    /\ Resolved
    /\ loading = FALSE
    /\ SubmitEnabled
    /\ \E r \in inflight : r.origin = "nav"

\* --------------------------------------------------------------------- C15
\* C15 as stated: right after a successful response is stored as the Record
\* the error text is empty.
C15_Original == Succeeded => error = ""

\* C15 amended: a successful response leaves the error text as it finds it.
\* Right after it the error text is empty when its lookup never overlapped
\* another; otherwise it is the not-found message if another lookup failed
\* since the latest lookup start.
C15_ErrorKeptBySuccess ==
    /\ [][last'.op = "resolve" /\ last'.outcome = "ok" => error' = error]_vars
    /\ [](Succeeded /\ NeverOverlapped(last.req) => error = "")

\* The second search of a behaviour, alone on the wire, was answered and no
\* error text is shown.
C15_Witness ==
    /\ Succeeded
    /\ NeverOverlapped(last.req)
    /\ last.req.origin = "search"
    /\ issued >= 2
    /\ error = ""

\* --------------------------------------------------------------------- C16
\* C16 as stated: while the request of a search is in flight no Record is
\* displayed.
C16_Original == \A r \in inflight : r.origin = "search" => pokemon = Null

\* C16 amended: while the request of a search is in flight no Record is
\* displayed and no other lookup is in flight, provided nothing was in flight
\* when the search was submitted; the response of a lookup that was still in
\* flight then stores its Record while the search is pending.
C16_NoRecordWhileSearching ==
    \A r \in inflight :
        r.origin = "search" /\ r.alone => pokemon = Null /\ inflight = {r}

\* A search that cleared a Record is in flight, alone, and no Record shows.
C16_Witness ==
    \E r \in inflight : /\ r.origin = "search"
                        /\ r.alone
                        /\ r.shown # Null
                        /\ pokemon = Null
====
